---- MODULE Spec2Model ----
(***************************************************************************)
(* Model of skopt/objectives.py: the weight parsers, the objective type    *)
(* classifier, and the construction and evaluation of the four Objective   *)
(* variants.                                                               *)
(*                                                                         *)
(* Representation.  A numpy array is a record                              *)
(*   [dtype, shape, data, keys, den]                                       *)
(* with shape a sequence of axis lengths, data the row-major flattening,   *)
(* keys the 'keys' column of a structured key-value array (<<>> for a      *)
(* float array) and den the divisor left by normalise(): entry p stands    *)
(* for data[p]/den (den = 1 for an array that was never normalised;        *)
(* den = 0 stands for the nan/inf produced by a division by zero).         *)
(* An optional Python value (None or a value) is <<>> or <<v>>.            *)
(* A call that raises is a result record with ok = FALSE and the name of   *)
(* the exception in err.                                                   *)
(***************************************************************************)
EXTENDS Integers, Sequences, FiniteSets, TLC

VARIABLES pc, call, ret, obj

vars == <<pc, call, ret, obj>>

(***************************************************************************)
(* Bounds of the model.                                                    *)
(***************************************************************************)
MaxLen == 2      \* 1-D arrays have 1..MaxLen items
MaxW == 2        \* weights range over 0..MaxW
MaxModels == 3   \* get_type is called with 0..MaxModels models
MaxIndex == 3    \* get_ranges is called with indexes -1..MaxIndex

None == <<>>
Some(v) == <<v>>

(***************************************************************************)
(* Arrays                                                                  *)
(***************************************************************************)
Arr(shape, data) ==
  [dtype |-> "float", shape |-> shape, data |-> data, keys |-> <<>>, den |-> 1]

NoArr == Arr(<<0>>, <<>>)

Ok(v) == [ok |-> TRUE, err |-> "", val |-> v]
Err(e) == [ok |-> FALSE, err |-> e, val |-> NoArr]

RECURSIVE Prod(_)
Prod(s) == IF s = <<>> THEN 1 ELSE Head(s) * Prod(Tail(s))

RECURSIVE SeqSum(_)
SeqSum(s) == IF s = <<>> THEN 0 ELSE Head(s) + SeqSum(Tail(s))

SetMax(S) == CHOOSE m \in S : \A x \in S : x <= m

Range0(s) == {s[i] : i \in 1..Len(s)}

\* np.ones(shape) * dflt
Full(shape, v) == Arr(shape, [p \in 1..Prod(shape) |-> v])

\* length of one item along the first axis (1 for a 1-D array)
RowLen(shape) == Prod(Tail(shape))

\* 0-based index along the first axis of the flat position p (1-based)
Row0(shape, p) == (p - 1) \div RowLen(shape)

\* 0-based index along the second axis of the flat position p of a 2-D array
Col0(shape, p) == (p - 1) % RowLen(shape)

\* numpy's handling of an integer index on an axis of length n: negative
\* indexes count from the end, anything outside -n..n-1 is an IndexError
InAxis(i, n) == -n <= i /\ i < n
Wrap(i, n) == IF i < 0 THEN i + n ELSE i

\* skopt.utils.normalise: divide by the sum of the items
normalise(ww) == [ww EXCEPT !.den = SeqSum(ww.data) * ww.den]

(***************************************************************************)
(* f2prange and get_ranges.  A range item is <<s>> (a bare index) or       *)
(* <<lo, hi>> (a 1-based inclusive pair).                                  *)
(***************************************************************************)
\* f2prange returning lo where the code returns lo-1
f2prange_KeepLow(lo, hi) ==
  IF lo >= 1 /\ hi >= lo
    THEN [ok |-> TRUE, err |-> "", lo |-> lo, hi |-> hi]
    ELSE [ok |-> FALSE, err |-> "AssertionError", lo |-> 0, hi |-> 0]

\* lines 555-559
f2prange(lo, hi) ==
  IF lo >= 1 /\ hi >= lo
    THEN [ok |-> TRUE, err |-> "", lo |-> lo - 1, hi |-> hi]
    ELSE [ok |-> FALSE, err |-> "AssertionError", lo |-> 0, hi |-> 0]

\* one pass of the loop body of get_ranges (lines 577-581)
get_range1(rng) ==
  IF Len(rng) = 1 THEN f2prange(rng[1], rng[1])
  ELSE IF Len(rng) = 2 THEN f2prange(rng[1], rng[2])
  ELSE [ok |-> FALSE, err |-> "ValueError", lo |-> 0, hi |-> 0]

(***************************************************************************)
(* The weight specifications                                               *)
(* A str is a sequence of characters.  A mapping (a Python dict) is        *)
(*   [kind |-> "dict", vals, items, groups]                                *)
(* items holds the keys with a number for value, as [key, val] in          *)
(* insertion order ('dflt' among them); groups maps every group key to its *)
(* list of [loc, w] entries, a key the mapping does not hold to <<>> (the  *)
(* code reads every group as spec.get(k, [])).                             *)
(* Explicit weights are [kind |-> "list" or "array", vals |-> weights].    *)
(***************************************************************************)
GroupKeys == {"indexes", "Ekpts", "ranges", "bands", "iband", "values"}

NoGroups == [k \in GroupKeys |-> <<>>]

DfltKey == <<"d", "f", "l", "t">>

KVDict(items) ==
  [kind |-> "dict", vals |-> <<>>, items |-> items, groups |-> NoGroups]

DictSpec(dflt, groups) ==
  [kind |-> "dict", vals |-> <<>>,
   items |-> IF dflt = None THEN <<>>
             ELSE <<[key |-> DfltKey, val |-> dflt[1]]>>,
   groups |-> groups]

ListSpec(vals) ==
  [kind |-> "list", vals |-> vals, items |-> <<>>, groups |-> NoGroups]

KVList(vals) == ListSpec(vals)

\* spec.get('dflt', otherwise)
GetDflt(items, otherwise) ==
  IF \E i \in 1..Len(items) : items[i].key = DfltKey
    THEN items[CHOOSE i \in 1..Len(items) : items[i].key = DfltKey].val
    ELSE otherwise

(***************************************************************************)
(* parse_weights                                                           *)
(***************************************************************************)
\* lines 140-149: one explicit-index entry
SetIndex(ww, i0, e) ==
  LET shape == ww.shape
      n == shape[1]
  IN IF Len(e.loc) = 1
       THEN LET i == i0 + e.loc[1] - 1
            IN IF ~InAxis(i, n) THEN Err("IndexError")
               ELSE Ok([ww EXCEPT !.data =
                        [p \in 1..Len(ww.data) |->
                           IF Row0(shape, p) = Wrap(i, n) THEN e.w
                           ELSE ww.data[p]]])
       ELSE \* i0 + i raises TypeError for a pair: shift i[0] only
            LET j0 == i0 + e.loc[1] - 1
                j1 == e.loc[2] - 1
            IN IF Len(shape) # 2 THEN Err("IndexError")
               ELSE IF ~InAxis(j0, n) \/ ~InAxis(j1, shape[2])
                 THEN Err("IndexError")
               ELSE Ok([ww EXCEPT !.data =
                        [p \in 1..Len(ww.data) |->
                           IF Row0(shape, p) = Wrap(j0, n)
                              /\ Col0(shape, p) = Wrap(j1, shape[2])
                             THEN e.w
                           ELSE ww.data[p]]])

\* SetRange without the test ww[ilo:ihi] < w: the last listed range wins
SetRange_LastWins(ww, e) ==
  LET r == get_range1(e.loc)
  IN IF ~r.ok THEN Err(r.err)
     ELSE Ok([ww EXCEPT !.data =
              [p \in 1..Len(ww.data) |->
                 IF r.lo <= Row0(ww.shape, p) /\ Row0(ww.shape, p) < r.hi
                   THEN e.w
                 ELSE ww.data[p]]])

\* lines 152-156: one integer-range entry; a slice clamps to the array
SetRange(ww, e) ==
  LET r == get_range1(e.loc)
  IN IF ~r.ok THEN Err(r.err)
     ELSE Ok([ww EXCEPT !.data =
              [p \in 1..Len(ww.data) |->
                 IF r.lo <= Row0(ww.shape, p) /\ Row0(ww.shape, p) < r.hi
                    /\ ww.data[p] < e.w
                   THEN e.w
                 ELSE ww.data[p]]])

\* lines 160-164: one value-range entry
SetValues(ww, refdata, e) ==
  Ok([ww EXCEPT !.data =
      [p \in 1..Len(ww.data) |->
         IF e.loc[1] <= refdata.data[p] /\ refdata.data[p] <= e.loc[2]
            /\ ww.data[p] < e.w
           THEN e.w
         ELSE ww.data[p]]])

\* The loops work on r, the weights so far as Ok(ww) or the exception that
\* was raised, which ends the call.
\* the entries of one group, in listed order
RECURSIVE IndexEntries(_, _, _)
IndexEntries(r, i0, es) ==
  IF ~r.ok \/ es = <<>> THEN r
  ELSE IndexEntries(SetIndex(r.val, i0, Head(es)), i0, Tail(es))

RECURSIVE RangeEntries(_, _)
RangeEntries(r, es) ==
  IF ~r.ok \/ es = <<>> THEN r
  ELSE RangeEntries(SetRange(r.val, Head(es)), Tail(es))

RECURSIVE ValueEntries(_, _, _)
ValueEntries(r, refdata, es) ==
  IF ~r.ok \/ es = <<>> THEN r
  ELSE ValueEntries(SetValues(r.val, refdata, Head(es)), refdata, Tail(es))

\* lines 138-149: the groups named by ikeys, in the order of ikeys
RECURSIVE IndexGroups(_, _, _, _)
IndexGroups(r, spec, i0, ikeys) ==
  IF ~r.ok \/ ikeys = <<>> THEN r
  ELSE IndexGroups(IndexEntries(r, i0, spec.groups[Head(ikeys)]),
                   spec, i0, Tail(ikeys))

\* lines 151-156
RECURSIVE RangeGroups(_, _, _)
RangeGroups(r, spec, rikeys) ==
  IF ~r.ok \/ rikeys = <<>> THEN r
  ELSE RangeGroups(RangeEntries(r, spec.groups[Head(rikeys)]),
                   spec, Tail(rikeys))

\* lines 158-164: refdata.shape is read once per key of rfkeys, whether or
\* not the spec holds that key
RECURSIVE ValueGroups(_, _, _, _)
ValueGroups(r, spec, refdata, rfkeys) ==
  IF ~r.ok \/ rfkeys = <<>> THEN r
  ELSE IF refdata = None THEN Err("AttributeError")
  ELSE IF refdata[1].shape # r.val.shape THEN Err("AssertionError")
  ELSE ValueGroups(ValueEntries(r, refdata[1], spec.groups[Head(rfkeys)]),
                   spec, refdata, Tail(rfkeys))

\* lines 128-135
InitialWeights(spec, refdata, nn, shape) ==
  LET dflt == GetDflt(spec.items, 1)
      shp == IF shape # None THEN shape[1]
             ELSE IF refdata # None THEN refdata[1].shape
             ELSE <<nn>>
  IN Full(shp, dflt)

\* lines 136-149: the weights after the default and explicit-index steps
AfterIndexes(spec, refdata, nn, shape, i0, ikeys) ==
  IndexGroups(Ok(InitialWeights(spec, refdata, nn, shape)), spec, i0, ikeys)

\* lines 165-168
Normalised(r, normalised) ==
  IF r.ok /\ normalised THEN Ok(normalise(r.val)) ELSE r

parse_weights(spec, refdata, nn, shape, i0, normalised, ikeys, rikeys, rfkeys) ==
  IF spec.kind = "array" \/ (spec.kind = "list" /\ Len(spec.vals) = nn)
    THEN Normalised(Ok(Arr(<<Len(spec.vals)>>, spec.vals)), normalised)
  ELSE IF spec.kind = "list" THEN Err("AttributeError")
  ELSE Normalised(
         ValueGroups(
           RangeGroups(AfterIndexes(spec, refdata, nn, shape, i0, ikeys),
                       spec, rikeys),
           spec, refdata, rfkeys),
         normalised)

(***************************************************************************)
(* parse_weights_keyval                                                    *)
(* bytes are [bytes |-> sequence of characters].                           *)
(* The keys of a key-value reference table are stored as 'S15': at most    *)
(* KeyWidth bytes of the key survive (get_refdata, line 655).  Only ASCII  *)
(* keys reach the table, so encode() and decode() map characters to bytes  *)
(* one to one.                                                             *)
(***************************************************************************)
KeyWidth == 15

encode(str) == [bytes |-> str]
decode(b) == b.bytes

\* numpy's conversion of bytes to an 'S15' field
S15(b) ==
  [bytes |-> IF Len(b.bytes) > KeyWidth THEN SubSeq(b.bytes, 1, KeyWidth)
             ELSE b.bytes]

\* a structured array of dtype [('keys','S15'), ('values','float')]
KVTable(keys, values) ==
  [dtype |-> "keyval", shape |-> <<Len(keys)>>, data |-> values,
   keys |-> keys, den |-> 1]

\* a Python list of numbers (no shape attribute, no array indexing)
PyList(vals) ==
  [dtype |-> "list", shape |-> <<Len(vals)>>, data |-> vals, keys |-> <<>>,
   den |-> 1]

\* KVDefault with the default of parse_weights (1) for a spec without 'dflt'
KVDefault_One(items) == GetDflt(items, 1)

\* spec.get('dflt', 0), line 47
KVDefault(items) == GetDflt(items, 0)

\* lines 53-55: every item of the spec, 'dflt' included, in insertion order
RECURSIVE KVAssign(_, _, _)
KVAssign(data, keys, items) ==
  IF items = <<>> THEN data
  ELSE KVAssign([p \in 1..Len(data) |->
                   IF keys[p] = encode(Head(items).key) THEN Head(items).val
                   ELSE data[p]],
                keys, Tail(items))

\* normalise() of a list yields an array
normalise_any(ww) == normalise([ww EXCEPT !.dtype = "float"])

parse_weights_keyval(spec, data, normalised) ==
  LET nn == data.shape[1]
      r == IF spec.kind \in {"list", "array"}
             THEN IF Len(spec.vals) # nn THEN Err("AssertionError")
                  ELSE IF spec.kind = "list" THEN Ok(PyList(spec.vals))
                  ELSE Ok(Arr(<<nn>>, spec.vals))
           ELSE IF data.dtype # "keyval" THEN Err("TypeError")
           ELSE Ok(Arr(<<nn>>,
                       KVAssign(Full(<<nn>>, KVDefault(spec.items)).data,
                                data.keys, spec.items)))
  IN IF r.ok /\ normalised THEN Ok(normalise_any(r.val)) ELSE r

(***************************************************************************)
(* get_models and get_type                                                 *)
(* A models specification is [isstr |-> TRUE, items |-> <<[name, w]>>] for *)
(* a plain string, or [isstr |-> FALSE, items |-> ...] for a list whose    *)
(* items are [name, w] with w = None for a plain identifier.               *)
(***************************************************************************)
RECURSIVE MapNames(_)
MapNames(items) ==
  IF items = <<>> THEN <<>> ELSE <<Head(items).name>> \o MapNames(Tail(items))

RECURSIVE MapWeights(_)
MapWeights(items) ==
  IF items = <<>> THEN <<>>
  ELSE <<IF Head(items).w = None THEN 1 ELSE Head(items).w[1]>>
         \o MapWeights(Tail(items))

\* (m_names, m_weights); for a string both are scalars
get_models(models) ==
  IF models.isstr
    THEN [isstr |-> TRUE, names |-> <<models.items[1].name>>, weights |-> <<1>>]
    ELSE [isstr |-> FALSE, names |-> MapNames(models.items),
          weights |-> MapWeights(models.items)]

Ndim(a) == Len(a.shape)

\* get_type with the first test written n_models >= 1
get_type_AnyCount(n_models, ref) ==
  LET t0 == "values"
      t1 == IF n_models >= 1 /\ ref.shape = <<1>> THEN "weighted_sum" ELSE t0
      t2 == IF n_models = 1 /\ Ndim(ref) = 1 /\ ref.dtype = "keyval"
              THEN "keyval_pairs" ELSE t1
      t3 == IF n_models = 1 /\ Ndim(ref) = 2 /\ ref.dtype = "float"
              THEN "bands" ELSE t2
  IN t3

get_type(n_models, ref) ==
  LET t0 == "values"
      t1 == IF n_models > 1 /\ ref.shape = <<1>> THEN "weighted_sum" ELSE t0
      t2 == IF n_models = 1 /\ Ndim(ref) = 1 /\ ref.dtype = "keyval"
              THEN "keyval_pairs" ELSE t1
      t3 == IF n_models = 1 /\ Ndim(ref) = 2 /\ ref.dtype = "float"
              THEN "bands" ELSE t2
  IN t3

(***************************************************************************)
(* get_ranges, get_subset_ind, get_refval                                  *)
(* A range specification is [scalar |-> TRUE, items |-> <<<<s>>>>] for a   *)
(* bare index, or [scalar |-> FALSE, items |-> ...] for a list whose items *)
(* are <<s>> or <<lo, hi>>; None where the option is absent.               *)
(***************************************************************************)
RECURSIVE RangeList(_)
RangeList(items) ==
  IF items = <<>> THEN [ok |-> TRUE, err |-> "", rngs |-> <<>>]
  ELSE LET r == get_range1(Head(items))
           rest == RangeList(Tail(items))
       IN IF ~r.ok THEN [ok |-> FALSE, err |-> r.err, rngs |-> <<>>]
          ELSE IF ~rest.ok THEN rest
          ELSE [rest EXCEPT !.rngs = <<<<r.lo, r.hi>>>> \o rest.rngs]

\* iterating None or comparing None >= 1 raises TypeError; a scalar is not
\* iterable and is converted as the one-item list of itself (lines 582-584)
get_ranges(data) ==
  IF data = None THEN [ok |-> FALSE, err |-> "TypeError", rngs |-> <<>>]
  ELSE RangeList(data[1].items)

\* range(lo, hi) as a sequence
RangeSeq(lo, hi) == [i \in 1..(hi - lo) |-> lo + i - 1]

RECURSIVE Concat(_)
Concat(ss) == IF ss = <<>> THEN <<>> ELSE Head(ss) \o Concat(Tail(ss))

get_subset_ind(rangespec) ==
  LET r == get_ranges(rangespec)
  IN IF ~r.ok THEN [ok |-> FALSE, err |-> r.err, ind |-> <<>>]
     ELSE [ok |-> TRUE, err |-> "",
           ind |-> Concat([i \in 1..Len(r.rngs) |->
                             RangeSeq(r.rngs[i][1], r.rngs[i][2])])]

\* a[ind]: the items of the first axis named by an index array; an empty
\* index array has a float dtype and cannot index
TakeRows(a, ind) ==
  IF ind = <<>> THEN Err("IndexError")
  ELSE IF \E i \in 1..Len(ind) : ~InAxis(ind[i], a.shape[1])
    THEN Err("IndexError")
  ELSE LET rl == RowLen(a.shape)
       IN Ok([a EXCEPT
                !.shape = <<Len(ind)>> \o Tail(a.shape),
                !.data = [p \in 1..(Len(ind) * rl) |->
                            a.data[ind[((p - 1) \div rl) + 1] * rl
                                   + ((p - 1) % rl) + 1]]])

SeqMin(s) == CHOOSE m \in Range0(s) : \A x \in Range0(s) : m <= x
SeqMax(s) == CHOOSE m \in Range0(s) : \A x \in Range0(s) : x <= m

\* the first-axis item r (0-based) of an array, flattened
RowOf(a, r) ==
  LET rl == RowLen(a.shape) IN [c \in 1..rl |-> a.data[r * rl + c]]

\* A locator is [band, kind, k, f]: kind "k" for (band, k-point), "f" for
\* (band, function name).  Returns the value, or the exception raised.
get_refval(bands, refpt) ==
  IF refpt = None THEN [ok |-> FALSE, err |-> "TypeError", value |-> 0]
  ELSE
    LET pt == refpt[1]
        iband == pt.band - 1
        n == bands.shape[1]
    IN IF pt.kind = "k"
         THEN LET ik == pt.k - 1
              IN IF Len(bands.shape) # 2 \/ ~InAxis(iband, n)
                    \/ ~InAxis(ik, bands.shape[2])
                   THEN [ok |-> FALSE, err |-> "IndexError", value |-> 0]
                 ELSE [ok |-> TRUE, err |-> "",
                       value |-> RowOf(bands, Wrap(iband, n))
                                   [Wrap(ik, bands.shape[2]) + 1]]
       ELSE IF pt.f \notin {"min", "max"}
         THEN [ok |-> FALSE, err |-> "KeyError", value |-> 0]
       ELSE IF ~InAxis(iband, n)
         THEN [ok |-> FALSE, err |-> "IndexError", value |-> 0]
       ELSE [ok |-> TRUE, err |-> "",
             value |-> IF pt.f = "min" THEN SeqMin(RowOf(bands, Wrap(iband, n)))
                       ELSE SeqMax(RowOf(bands, Wrap(iband, n)))]

\* a -= shift
Shifted(a, shift) ==
  [a EXCEPT !.data = [p \in 1..Len(a.data) |-> a.data[p] - shift]]

(***************************************************************************)
(* Objective and its four variants                                         *)
(*                                                                         *)
(* The spec handed to a constructor is the record get_objective prepares:  *)
(*   [type, query, model_names, model_weights, ref_data, options, weight]  *)
(* model_names is [isstr, names]: a str (names holds it alone) or a list   *)
(* of str; a name is a sequence of characters.  options is None or         *)
(* Some(record) whose fields are the optional keys of the options block.   *)
(* An objective is a record of its attributes; an attribute that was never *)
(* assigned is None.                                                       *)
(***************************************************************************)
DEFAULT_COST_FUNC == "rms"
DEFAULT_ERROR_FUNC == "abs"

\* skopt.evaluate: the registered cost and error functions
costf_registry == {"rms", "mae"}
errf_registry == {"abs", "rel"}

\* str.lower() on the names the model uses
lower(name) ==
  CASE name = "RMS" -> "rms"
    [] name = "MAE" -> "mae"
    [] name = "ABS" -> "abs"
    [] name = "REL" -> "rel"
    [] name = "Rel." -> "rel."
    [] OTHER -> name

NoOptions ==
  [costf |-> None, errf |-> None, subweights |-> None, normalise |-> None,
   use_ref |-> None, align_ref |-> None, use_model |-> None,
   align_model |-> None]

\* np.ones(shape)
Ones(shape) == Full(shape, 1)

\* len(self.model_names): the number of characters of a str, the number of
\* items of a list
LenNames(model_names) ==
  IF model_names.isstr THEN Len(model_names.names[1])
  ELSE Len(model_names.names)

\* Query(model_names, key)
Query(model_names, key) == [model_names |-> model_names, key |-> key]

\* options.get(key, True) for the key 'normalise'
NormaliseOpt(options) ==
  IF options[1].normalise = None THEN TRUE ELSE options[1].normalise[1]

\* Objective.__init__ looking the names up without .lower()
Objective_init_NoLower(cls, spec) ==
  LET opt == spec.options
      cname == IF opt # None /\ opt[1].costf # None
                  /\ opt[1].costf[1] \in costf_registry
                 THEN opt[1].costf[1] ELSE DEFAULT_COST_FUNC
      ename == IF opt # None /\ opt[1].errf # None
                  /\ opt[1].errf[1] \in errf_registry
                 THEN opt[1].errf[1] ELSE DEFAULT_ERROR_FUNC
  IN [status |-> "constructed",
      cls |-> cls,
      objtype |-> spec.type,
      query_key |-> spec.query,
      model_names |-> spec.model_names,
      model_weights |-> spec.model_weights,
      ref_data |-> spec.ref_data,
      costf |-> cname,
      errf |-> ename,
      weight |-> spec.weight,
      options |-> opt,
      query |-> Query(spec.model_names, spec.query),
      subweights |-> Ones(spec.ref_data.shape),
      subweight |-> None,
      normalised |-> None,
      queries |-> <<>>,
      subset_ind |-> None,
      align_model |-> None,
      model_data |-> None]

\* lines 278-303
Objective_init(cls, spec) ==
  LET opt == spec.options
      cname == IF opt # None /\ opt[1].costf # None
                  /\ lower(opt[1].costf[1]) \in costf_registry
                 THEN lower(opt[1].costf[1]) ELSE DEFAULT_COST_FUNC
      ename == IF opt # None /\ opt[1].errf # None
                  /\ lower(opt[1].errf[1]) \in errf_registry
                 THEN lower(opt[1].errf[1]) ELSE DEFAULT_ERROR_FUNC
  IN [status |-> "constructed",
      cls |-> cls,
      objtype |-> spec.type,
      query_key |-> spec.query,
      model_names |-> spec.model_names,
      model_weights |-> spec.model_weights,
      ref_data |-> spec.ref_data,
      costf |-> cname,
      errf |-> ename,
      weight |-> spec.weight,
      options |-> opt,
      query |-> Query(spec.model_names, spec.query),
      subweights |-> Ones(spec.ref_data.shape),
      subweight |-> None,
      normalised |-> None,
      queries |-> <<>>,
      subset_ind |-> None,
      align_model |-> None,
      model_data |-> None]

NoObj == [Objective_init("none",
            [type |-> "", query |-> <<>>,
             model_names |-> [isstr |-> TRUE, names |-> <<>>],
             model_weights |-> NoArr, ref_data |-> NoArr, options |-> None,
             weight |-> 1])
          EXCEPT !.status = "none"]

\* lines 368 and 516: the parsed subweights must have the reference's shape
ParsedSubweights(o, r, shape, nz) ==
  IF ~r.ok THEN r
  ELSE IF r.val.shape # shape THEN Err("AssertionError")
  ELSE Ok([o EXCEPT !.normalised = Some(nz), !.subweights = r.val])

\* lines 355-370
ObjValues_init(spec) ==
  LET o == Objective_init("ObjValues", spec)
      nmod == LenNames(o.model_names)
      ref == IF Len(o.ref_data.shape) = 2 /\ o.ref_data.shape = <<1, nmod>>
               THEN [o.ref_data EXCEPT !.shape = <<nmod>>]
             ELSE o.ref_data
      shape == ref.shape
      o1 == [o EXCEPT !.ref_data = ref]
  IN IF o.options # None /\ o.options[1].subweights # None
       THEN ParsedSubweights(
              o1,
              parse_weights(o.options[1].subweights[1], None, nmod,
                            None, 0, NormaliseOpt(o.options),
                            <<"indexes">>, <<"ranges">>, <<"values">>),
              shape, NormaliseOpt(o.options))
     ELSE Ok([o1 EXCEPT !.subweight = Some(Ones(shape))])

\* ww != 0 for an entry of a weight array: nan and inf differ from 0
NonZero(ww, i) == ww.den = 0 \/ ww.data[i] # 0

\* np.where(ww != 0): the retained positions, ascending
RECURSIVE WhereFrom(_, _)
WhereFrom(ww, i) ==
  IF i > Len(ww.data) THEN <<>>
  ELSE (IF NonZero(ww, i) THEN <<i>> ELSE <<>>) \o WhereFrom(ww, i + 1)

\* a mask that retains every position
NonZeroMask_All(ww) == [i \in 1..Len(ww.data) |-> i]

NonZeroMask(ww) == WhereFrom(ww, 1)

\* a[mask] for a 1-D sequence of values
Pick(vals, mask) == [j \in 1..Len(mask) |-> vals[mask[j]]]

\* lines 385-404
ObjKeyValuePairs_init(spec) ==
  LET o == Objective_init("ObjKeyValuePairs", spec)
  IN IF o.options = None THEN Err("AttributeError")
     ELSE IF o.options[1].subweights = None THEN Err("KeyError")
     ELSE
       LET nz == NormaliseOpt(o.options)
           r == parse_weights_keyval(o.options[1].subweights[1], o.ref_data, nz)
       IN IF ~r.ok THEN r
          ELSE IF o.ref_data.dtype # "keyval" THEN Err("IndexError")
          ELSE IF r.val.dtype = "list" THEN Err("TypeError")
          ELSE
            LET ww == r.val
                mask == NonZeroMask(ww)
                keys == [j \in 1..Len(mask) |-> decode(o.ref_data.keys[mask[j]])]
            IN Ok([o EXCEPT
                     !.query_key = keys,
                     !.ref_data = Arr(<<Len(mask)>>, Pick(o.ref_data.data, mask)),
                     !.subweights = [ww EXCEPT !.shape = <<Len(mask)>>,
                                               !.data = Pick(ww.data, mask)],
                     !.queries = [j \in 1..Len(mask) |->
                                    Query(o.model_names, keys[j])]])

\* ObjWeightedSum has no constructor of its own
ObjWeightedSum_init(spec) == Ok(Objective_init("ObjWeightedSum", spec))

\* The steps of ObjBands.__init__ work on r, the objective so far as Ok(o) or
\* the exception that was raised, which ends the construction.
\* lines 469-479: use_ref
Bands_use_ref(r) ==
  LET o == r.val
      s == get_subset_ind(o.options[1].use_ref)
  IN IF ~r.ok THEN r
     ELSE IF ~s.ok
       THEN IF s.err \in {"TypeError", "KeyError"} THEN Ok(o) ELSE Err(s.err)
     ELSE LET t == TakeRows(o.ref_data, s.ind)
          IN IF ~t.ok THEN t
             ELSE Ok([o EXCEPT !.ref_data = t.val,
                               !.subweights = Ones(t.val.shape)])

\* lines 481-486: align_ref
Bands_align_ref(r) ==
  LET o == r.val
      v == get_refval(o.ref_data, o.options[1].align_ref)
  IN IF ~r.ok THEN r
     ELSE IF ~v.ok
       THEN IF v.err \in {"TypeError", "KeyError"} THEN Ok(o) ELSE Err(v.err)
     ELSE Ok([o EXCEPT !.ref_data = Shifted(o.ref_data, v.value)])

\* lines 491-495: use_model
Bands_use_model(r) ==
  LET o == r.val
      s == get_subset_ind(o.options[1].use_model)
  IN IF ~r.ok THEN r
     ELSE IF ~s.ok
       THEN IF s.err \in {"TypeError", "KeyError"} THEN Ok(o) ELSE Err(s.err)
     ELSE Ok([o EXCEPT !.subset_ind = Some(s.ind)])

\* lines 498-501: align_model
Bands_align_model(r) ==
  IF ~r.ok THEN r
  ELSE Ok([r.val EXCEPT !.align_model = r.val.options[1].align_model])

\* lines 503-520: subweights
Bands_subweights(r) ==
  LET o == r.val
      shape == o.ref_data.shape
  IN IF ~r.ok THEN r
     ELSE IF o.options # None /\ o.options[1].subweights # None
       THEN ParsedSubweights(
              o,
              parse_weights(o.options[1].subweights[1],
                            Some(o.ref_data), 1, None, 0,
                            NormaliseOpt(o.options),
                            <<"indexes", "Ekpts">>, <<"bands", "iband">>,
                            <<"values">>),
              shape, NormaliseOpt(o.options))
     ELSE Ok([o EXCEPT !.subweight = Some(Ones(shape))])

OnlyOneModel == "AssertionError: ObjBands accepts only one model"

\* ObjBands.__init__ with the align_ref step before the use_ref step
ObjBands_init_AlignFirst(spec) ==
  LET o == Objective_init("ObjBands", spec)
  IN IF ~o.model_names.isstr THEN Err(OnlyOneModel)
     ELSE IF o.options = None THEN Err("AttributeError")
     ELSE
       Bands_subweights(
         Bands_align_model(
           Bands_use_model(
             Bands_use_ref(
               Bands_align_ref(Ok(o))))))

\* lines 459-520.  self.options.get on options = None raises AttributeError,
\* which none of the except clauses catches.
ObjBands_init(spec) ==
  LET o == Objective_init("ObjBands", spec)
  IN IF ~o.model_names.isstr THEN Err(OnlyOneModel)
     ELSE IF o.options = None THEN Err("AttributeError")
     ELSE
       Bands_subweights(
         Bands_align_model(
           Bands_use_model(
             Bands_align_ref(
               Bands_use_ref(Ok(o))))))

(***************************************************************************)
(* get() and evaluate()                                                    *)
(* The query collaborator is outside the module: what one call of a query  *)
(* object yields is an input q of get(), Ok(array) or Err("QueryError").   *)
(* A get() yields [ok, err, obj, val]: obj is the objective as the call    *)
(* leaves it (model_data stays assigned when a later assertion fails) and  *)
(* val the triple (model_data, ref_data, subweights).                      *)
(***************************************************************************)
NoTriple == [model |-> NoArr, ref |-> NoArr, weights |-> NoArr]

GetFail(o, e) == [ok |-> FALSE, err |-> e, obj |-> o, val |-> NoTriple]

\* Objective.get without the second assertion
Objective_get_RefOnly(o) ==
  IF o.model_data[1].shape # o.ref_data.shape THEN GetFail(o, "AssertionError")
  ELSE [ok |-> TRUE, err |-> "", obj |-> o,
        val |-> [model |-> o.model_data[1], ref |-> o.ref_data,
                 weights |-> o.subweights]]

\* lines 305-317
Objective_get(o) ==
  IF o.model_data[1].shape # o.ref_data.shape THEN GetFail(o, "AssertionError")
  ELSE IF o.model_data[1].shape # o.subweights.shape
    THEN GetFail(o, "AssertionError")
  ELSE [ok |-> TRUE, err |-> "", obj |-> o,
        val |-> [model |-> o.model_data[1], ref |-> o.ref_data,
                 weights |-> o.subweights]]

\* ObjValues.get that queries only when the objective holds no model data
ObjValues_get_KeepFirst(o, q) ==
  IF o.model_data # None THEN Objective_get(o)
  ELSE IF ~q.ok THEN GetFail(o, q.err)
  ELSE LET o1 == [o EXCEPT !.model_data = Some(q.val)]
       IN IF LenNames(o.model_names) > 1 /\ q.val.shape # o.subweights.shape
            THEN GetFail(o1, "AssertionError")
          ELSE Objective_get(o1)

\* lines 372-379
ObjValues_get(o, q) ==
  IF ~q.ok THEN GetFail(o, q.err)
  ELSE LET o1 == [o EXCEPT !.model_data = Some(q.val)]
       IN IF LenNames(o.model_names) > 1 /\ q.val.shape # o.subweights.shape
            THEN GetFail(o1, "AssertionError")
          ELSE Objective_get(o1)

\* lines 406-410: q.val[ix] is what the query of the ix-th retained key
\* returns; model_data is allocated with the shape of ref_data
ObjKeyValuePairs_get(o, q) ==
  IF ~q.ok
    THEN \* np.empty: the buffer holds whatever q.val says it holds
         GetFail([o EXCEPT !.model_data =
                    Some(Arr(o.ref_data.shape,
                             [ix \in 1..Len(o.queries) |-> q.val.data[ix]]))],
                 q.err)
  ELSE Objective_get([o EXCEPT !.model_data =
                        Some(Arr(o.ref_data.shape,
                                 [ix \in 1..Len(o.queries) |-> q.val.data[ix]]))])

\* np.dot(summands, weights) for 1-D weights and 1-D or 2-D summands
Dot(a, w) ==
  IF Len(a.shape) = 1
    THEN IF a.shape[1] # w.shape[1] THEN Err("ValueError")
         ELSE Ok(Arr(<<>>, <<SeqSum([i \in 1..Len(w.data) |->
                                       a.data[i] * w.data[i]])>>))
  ELSE IF a.shape[2] # w.shape[1] THEN Err("ValueError")
  ELSE Ok(Arr(<<a.shape[1]>>,
              [r \in 1..a.shape[1] |->
                 SeqSum([i \in 1..Len(w.data) |->
                           RowOf(a, r - 1)[i] * w.data[i]])]))

\* np.atleast_1d
atleast_1d(a) == IF a.shape = <<>> THEN [a EXCEPT !.shape = <<1>>] ELSE a

\* ObjWeightedSum.get without the assertion on len(summands)
ObjWeightedSum_get_NoAssert(o, q) ==
  IF ~q.ok THEN GetFail(o, q.err)
  ELSE LET d == Dot(q.val, o.model_weights)
       IN IF ~d.ok THEN GetFail(o, d.err)
          ELSE Objective_get([o EXCEPT !.model_data = Some(atleast_1d(d.val))])

\* lines 416-422
ObjWeightedSum_get(o, q) ==
  IF ~q.ok THEN GetFail(o, q.err)
  ELSE IF q.val.shape[1] # o.model_weights.shape[1]
    THEN GetFail(o, "AssertionError")
  ELSE LET d == Dot(q.val, o.model_weights)
       IN IF ~d.ok THEN GetFail(o, d.err)
          ELSE Objective_get([o EXCEPT !.model_data = Some(atleast_1d(d.val))])

\* lines 522-534
ObjBands_get(o, q) ==
  IF ~q.ok THEN GetFail(o, q.err)
  ELSE
    LET o1 == [o EXCEPT !.model_data = Some(q.val)]
        m == IF o.subset_ind # None THEN TakeRows(q.val, o.subset_ind[1])
             ELSE Ok(q.val)
    IN IF ~m.ok THEN GetFail(o1, m.err)
       ELSE
         LET o2 == [o EXCEPT !.model_data = Some(m.val)]
         IN IF o.align_model = None THEN Objective_get(o2)
            ELSE LET v == get_refval(m.val, o.align_model)
                 IN IF ~v.ok THEN GetFail(o2, v.err)
                    ELSE Objective_get(
                           [o EXCEPT !.model_data = Some(Shifted(m.val, v.value))])

\* the get() of the objective's class
get(o, q) ==
  CASE o.cls = "ObjValues" -> ObjValues_get(o, q)
    [] o.cls = "ObjKeyValuePairs" -> ObjKeyValuePairs_get(o, q)
    [] o.cls = "ObjWeightedSum" -> ObjWeightedSum_get(o, q)
    [] o.cls = "ObjBands" -> ObjBands_get(o, q)

\* skopt.evaluate: the value of costf[name](ref, model, weights, errf[name])
\* is the term of its arguments
CostValue(cname, ename, ref, model, weights) ==
  [costf |-> cname, errf |-> ename, ref |-> ref, model |-> model,
   weights |-> weights]

NoFitness == CostValue("", "", NoArr, NoArr, NoArr)

\* lines 319-323
evaluate(o, q) ==
  LET g == get(o, q)
  IN IF ~g.ok THEN [ok |-> FALSE, err |-> g.err, obj |-> g.obj,
                    val |-> NoFitness]
     ELSE [ok |-> TRUE, err |-> "", obj |-> g.obj,
           val |-> CostValue(o.costf, o.errf, g.val.ref, g.val.model,
                             g.val.weights)]

(***************************************************************************)
(* get_refdata and get_objective                                           *)
(* A reference specification is [kind |-> "array", arr, items] (a literal  *)
(* or the table a file holds) or [kind |-> "dict", arr, items] with items  *)
(* the (key, value) pairs of a mapping without 'file'.                     *)
(***************************************************************************)
\* lines 652-661
get_refdata(data) ==
  IF data.kind = "dict"
    THEN KVTable([i \in 1..Len(data.items) |-> S15(encode(data.items[i].key))],
                 [i \in 1..Len(data.items) |-> data.items[i].val])
  ELSE data.arr

\* objectives_mapper.get(type, ObjValues)
objectives_mapper(type) ==
  CASE type = "weighted_sum" -> "ObjWeightedSum"
    [] type = "keyval_pairs" -> "ObjKeyValuePairs"
    [] type = "bands" -> "ObjBands"
    [] OTHER -> "ObjValues"

\* lines 684-697: the spec as the constructor receives it
PreparedSpec(raw) ==
  LET m == get_models(raw.models)
      ref == get_refdata(raw.ref)
      nmod == IF m.isstr THEN 1 ELSE Len(m.names)
  IN [type |-> IF raw.type = None THEN get_type(nmod, ref) ELSE raw.type[1],
      query |-> IF raw.query = None THEN raw.label ELSE raw.query[1],
      model_names |-> [isstr |-> m.isstr, names |-> m.names],
      model_weights |-> Arr(<<Len(m.weights)>>, m.weights),
      ref_data |-> ref,
      options |-> raw.options,
      weight |-> 1]

get_objective(raw) ==
  LET spec == PreparedSpec(raw)
      cls == objectives_mapper(spec.type)
  IN CASE cls = "ObjValues" -> ObjValues_init(spec)
       [] cls = "ObjKeyValuePairs" -> ObjKeyValuePairs_init(spec)
       [] cls = "ObjWeightedSum" -> ObjWeightedSum_init(spec)
       [] cls = "ObjBands" -> ObjBands_init(spec)

(***************************************************************************)
(* Inputs of the calls of parse_weights                                    *)
(***************************************************************************)
Weights == 0..MaxW
PosWeights == 1..MaxW
RefValues == 0..1

Entry(key, loc, w) == [key |-> key, loc |-> loc, w |-> w]

SeqsUpTo2(S) ==
  {<<>>} \cup {<<a>> : a \in S} \cup {<<a, b>> : a \in S, b \in S}

RECURSIVE StripKey(_)
StripKey(es) ==
  IF es = <<>> THEN <<>>
  ELSE <<[loc |-> Head(es).loc, w |-> Head(es).w]>> \o StripKey(Tail(es))

GroupsOf(es) ==
  [k \in GroupKeys |-> StripKey(SelectSeq(es, LAMBDA e : e.key = k))]

Dflts == {None} \cup {Some(w) : w \in Weights}

Arrays1D(n) == {Arr(<<n>>, d) : d \in [1..n -> RefValues]}

\* 1-based locators around an axis of at most MaxLen items
IndexLocs == {<<i>> : i \in 0..(MaxLen + 1)}
RangeLocs ==
  {<<s>> : s \in {0, 1, MaxLen}}
    \cup {<<lo, hi>> : lo \in 1..MaxLen, hi \in 1..(MaxLen + 1)}
    \cup {<<0, 1>>}
ValueLocs == {<<lo, hi>> : lo \in RefValues, hi \in RefValues}

Entries1D ==
  {Entry("indexes", l, w) : l \in IndexLocs, w \in Weights}
    \cup {Entry("ranges", l, w) : l \in RangeLocs, w \in PosWeights}
    \cup {Entry("values", l, w) : l \in ValueLocs, w \in PosWeights}

PWCall(spec, refdata, nn, shape, i0, normalised, ikeys, rikeys, rfkeys) ==
  [fn |-> "parse_weights", spec |-> spec, refdata |-> refdata, nn |-> nn,
   shape |-> shape, i0 |-> i0, normalised |-> normalised,
   ikeys |-> ikeys, rikeys |-> rikeys, rfkeys |-> rfkeys]

\* the calls ObjBands makes: 2-D reference data of MaxLen bands and MaxLen
\* k-points, (band, k-point) locators, two group keys per kind
Arrays2D ==
  {Arr(<<MaxLen, MaxLen>>, [p \in 1..(MaxLen * MaxLen) |-> 0]),
   Arr(<<MaxLen, MaxLen>>, [p \in 1..(MaxLen * MaxLen) |-> p % 2])}

PairLocs ==
  {<<b, k>> : b \in 1..MaxLen, k \in 1..MaxLen}
    \cup {<<0, 1>>, <<1, 0>>, <<MaxLen + 1, 1>>, <<1, MaxLen + 1>>}

Entries2D ==
  {Entry("Ekpts", l, w) : l \in PairLocs, w \in Weights}
    \cup {Entry("indexes", l, w) : l \in IndexLocs, w \in Weights}
    \cup {Entry(k, l, w) : k \in {"bands", "iband"}, l \in RangeLocs,
                           w \in PosWeights}
    \cup {Entry("values", l, w) : l \in ValueLocs, w \in PosWeights}

Entries1DNoValues == {e \in Entries1D : e.key # "values"}

\* structured specs of at most two overrides over 1-D reference data
PWInputsA(c) ==
  \E d \in Dflts, es \in SeqsUpTo2(Entries1D),
     r \in UNION {Arrays1D(n) : n \in 1..MaxLen} :
    c = PWCall(DictSpec(d, GroupsOf(es)), Some(r), 1, None, 0, FALSE,
               <<"indexes">>, <<"ranges">>, <<"values">>)

\* the calls ObjValues makes (no reference data, nn given), with and without
\* value-range keys, with either index origin and normalisation on or off
PWInputsB(c) ==
  \E d \in Dflts, es \in {<<>>} \cup {<<e>> : e \in Entries1DNoValues},
     n \in 1..MaxLen, i0 \in {0, 1}, nz \in BOOLEAN,
     rf \in {<<>>, <<"values">>} :
    c = PWCall(DictSpec(d, GroupsOf(es)), None, n, None, i0, nz,
               <<"indexes">>, <<"ranges">>, rf)

\* the calls ObjBands makes
PWInputsC(c) ==
  \E d \in {None, Some(0)}, es \in SeqsUpTo2(Entries2D), r \in Arrays2D :
    c = PWCall(DictSpec(d, GroupsOf(es)), Some(r), 1, None, 0, FALSE,
               <<"indexes", "Ekpts">>, <<"bands", "iband">>, <<"values">>)

\* explicit weights: a list or an array of 1..MaxLen weights
PWInputsD(c) ==
  \E v \in UNION {[1..m -> Weights] : m \in 1..MaxLen},
     k \in {"list", "array"}, n \in 1..MaxLen, nz \in BOOLEAN :
    c = PWCall([ListSpec(v) EXCEPT !.kind = k], None, n, None, 0, nz,
               <<"indexes">>, <<"ranges">>, <<"values">>)

PWApply(c) ==
  parse_weights(c.spec, c.refdata, c.nn, c.shape, c.i0, c.normalised,
                c.ikeys, c.rikeys, c.rfkeys)

InitPW ==
  /\ pc = "start"
  /\ PWInputsA(call) \/ PWInputsB(call) \/ PWInputsC(call) \/ PWInputsD(call)
  /\ ret = Err("pending")
  /\ obj = NoObj

ParseWeights ==
  /\ pc = "start"
  /\ call.fn = "parse_weights"
  /\ pc' = "done"
  /\ ret' = PWApply(call)
  /\ UNCHANGED <<call, obj>>

NextPW == ParseWeights

SpecPW == InitPW /\ [][NextPW]_vars

(***************************************************************************)
(* Calls of parse_weights_keyval                                           *)
(***************************************************************************)
LongKey == [i \in 1..(KeyWidth + 1) |-> "k"]

\* keys of the mapping specs and of the reference dictionaries
Keys == {<<"x">>, <<"y">>, DfltKey, LongKey, SubSeq(LongKey, 1, KeyWidth)}

StoredKeys == {S15(encode(k)) : k \in Keys}

Items == {[key |-> k, val |-> w] : k \in Keys, w \in Weights}

\* mappings of at most two items, keys unique
KVDicts ==
  {KVDict(<<>>)} \cup {KVDict(<<a>>) : a \in Items}
    \cup {KVDict(<<ab[1], ab[2]>>) :
            ab \in {x \in Items \X Items : x[1].key # x[2].key}}

KVLists == {KVList(v) : v \in UNION {[1..n -> Weights] : n \in 1..MaxLen}}

\* key-value tables of 1..MaxLen items; item i has value i
KVTables ==
  {KVTable(ks, [i \in 1..Len(ks) |-> i]) :
     ks \in UNION {[1..n -> StoredKeys] : n \in 1..MaxLen}}

KVInputs ==
  {[fn |-> "parse_weights_keyval", spec |-> sp, data |-> d, normalised |-> nz] :
     sp \in KVDicts \cup KVLists,
     d \in KVTables \cup {Arr(<<1>>, <<0>>)},
     nz \in BOOLEAN}

InitKV ==
  /\ pc = "start"
  /\ call \in KVInputs
  /\ ret = Err("pending")
  /\ obj = NoObj

ParseWeightsKeyval ==
  /\ pc = "start"
  /\ call.fn = "parse_weights_keyval"
  /\ pc' = "done"
  /\ ret' = parse_weights_keyval(call.spec, call.data, call.normalised)
  /\ UNCHANGED <<call, obj>>

NextKV == ParseWeightsKeyval

SpecKV == InitKV /\ [][NextKV]_vars

Shapes ==
  {<<n>> : n \in 1..MaxLen} \cup {<<r, c>> : r \in 1..MaxLen, c \in 1..MaxLen}

(***************************************************************************)
(* Calls of get_type                                                       *)
(***************************************************************************)
TypedArrays ==
  {[Full(sh, 0) EXCEPT !.dtype = dt] :
     sh \in Shapes, dt \in {"float", "int", "keyval"}}

GTInputs ==
  {[fn |-> "get_type", n_models |-> m, ref |-> r] :
     m \in 0..MaxModels, r \in TypedArrays}

InitGT ==
  /\ pc = "start"
  /\ call \in GTInputs
  /\ ret = Err("pending")
  /\ obj = NoObj

GetType ==
  /\ pc = "start"
  /\ call.fn = "get_type"
  /\ pc' = "done"
  /\ ret' = [ok |-> TRUE, err |-> "", val |-> get_type(call.n_models, call.ref)]
  /\ UNCHANGED <<call, obj>>

NextGT == GetType

SpecGT == InitGT /\ [][NextGT]_vars

(***************************************************************************)
(* The life of an objective: get_objective builds it from one entry of the *)
(* input, then get() and evaluate() are called any number of times.        *)
(***************************************************************************)
NameA == <<"A">>
NameB == <<"B">>
NameSi == <<"S", "i">>

StrModel(name) == [isstr |-> TRUE, items |-> <<[name |-> name, w |-> None]>>]
ListModel(items) == [isstr |-> FALSE, items |-> items]

ModelSpecs ==
  {StrModel(NameA), StrModel(NameSi),
   ListModel(<<[name |-> NameA, w |-> None]>>),
   ListModel(<<[name |-> NameA, w |-> None], [name |-> NameB, w |-> None]>>),
   ListModel(<<[name |-> NameA, w |-> Some(MaxW)], [name |-> NameB, w |-> None]>>)}

\* two arrays of every shape: all zero, and alternating 1, 0
Patterns(sh) == {Full(sh, 0), Arr(sh, [p \in 1..Prod(sh) |-> p % 2])}

ArrayRef(a) == [kind |-> "array", arr |-> a, items |-> <<>>]
DictRef(items) == [kind |-> "dict", arr |-> NoArr, items |-> items]

\* arrays of every shape: both patterns for the 1-D shapes and the square
\* of MaxLen, zeros for the other 2-D shapes
SomeArrays ==
  UNION {Patterns(<<n>>) : n \in 1..MaxLen}
    \cup Patterns(<<MaxLen, MaxLen>>)
    \cup {Full(sh, 0) : sh \in Shapes}

ArrayRefs == {ArrayRef(a) : a \in SomeArrays}

\* 2-D references: the two patterns and one whose entries all differ
BandRefs ==
  {ArrayRef(a) :
     a \in Arrays2D
          \cup {Arr(<<MaxLen, MaxLen>>, [p \in 1..(MaxLen * MaxLen) |-> p])}}

RefKeys == {<<"x">>, <<"y">>, LongKey}

\* reference mappings of 1..MaxLen items, keys unique; item i has value i
DictRefs ==
  {DictRef([i \in 1..Len(ks) |-> [key |-> ks[i], val |-> i]]) :
     ks \in {k \in UNION {[1..n -> RefKeys] : n \in 1..MaxLen} :
               \A i, j \in 1..Len(k) : i # j => k[i] # k[j]}}

RangeSpec(items) == Some([scalar |-> FALSE, items |-> items])
ScalarRange(s) == Some([scalar |-> TRUE, items |-> <<<<s>>>>])

KPoint(b, k) == Some([band |-> b, kind |-> "k", k |-> k, f |-> ""])
BandFunc(b, f) == Some([band |-> b, kind |-> "f", k |-> 0, f |-> f])

ListWeights == {ListSpec(v) : v \in UNION {[1..n -> {1, MaxW}] : n \in 1..MaxLen}}

ValuesSubweights ==
  ListWeights
    \cup {DictSpec(None, NoGroups),
          DictSpec(Some(MaxW), GroupsOf(<<Entry("ranges", <<1, 1>>, MaxW)>>)),
          DictSpec(None, GroupsOf(<<Entry("indexes", <<1>>, 0)>>))}

ValuesOptions ==
  {None, Some(NoOptions)}
    \cup {Some([NoOptions EXCEPT !.subweights = Some(sw)]) :
            sw \in ValuesSubweights}
    \cup {Some([NoOptions EXCEPT !.subweights = Some(sw),
                                 !.normalise = Some(FALSE)]) :
            sw \in {ListSpec([i \in 1..MaxLen |-> MaxW]),
                    DictSpec(None, NoGroups)}}

BandsSubweights ==
  {None,
   Some(DictSpec(None, GroupsOf(<<Entry("bands", <<1, 1>>, MaxW)>>))),
   Some(DictSpec(Some(0), GroupsOf(<<Entry("values", <<1, 1>>, MaxW),
                                     Entry("Ekpts", <<1, 1>>, 1)>>)))}

BandsOptions ==
  {Some([NoOptions EXCEPT !.use_ref = ur, !.align_ref = ar, !.use_model = um,
                          !.align_model = am, !.subweights = sw,
                          !.normalise = Some(FALSE)]) :
     ur \in {None, RangeSpec(<<<<1, 1>>>>), RangeSpec(<<<<2, 2>>>>),
             RangeSpec(<<<<1, MaxLen + 1>>>>)},
     ar \in {None, BandFunc(1, "min"), KPoint(1, MaxLen), BandFunc(1, "avg")},
     um \in {None, RangeSpec(<<<<1, 1>>>>)},
     am \in {None, BandFunc(1, "max")},
     sw \in BandsSubweights}

OptItems == {[key |-> k, val |-> w] : k \in {<<"x">>, <<"y">>, DfltKey},
                                      w \in Weights}

KeyvalSubweights ==
  {KVDict(<<>>)} \cup {KVDict(<<a>>) : a \in OptItems}
    \cup {KVDict(<<ab[1], ab[2]>>) :
            ab \in {x \in OptItems \X OptItems : x[1].key # x[2].key}}
    \cup {KVList(v) : v \in UNION {[1..n -> {0, MaxW}] : n \in 1..MaxLen}}

KeyvalOptions ==
  {None, Some(NoOptions)}
    \cup {Some([NoOptions EXCEPT !.subweights = Some(sw), !.normalise = nz]) :
            sw \in KeyvalSubweights, nz \in {None, Some(FALSE)}}

\* the names of cost and error functions an options block may hold
CostNames == {None, Some("rms"), Some("mae"), Some("MAE"), Some("chi2")}
ErrNames == {None, Some("abs"), Some("REL"), Some("Rel.")}

\* one entry for each of the four variants, the type left to get_type; the
\* key-value entry carries the subweights its variant cannot do without
NamedEntries ==
  {[models |-> StrModel(NameA), ref |-> ArrayRef(Full(<<1>>, 0)),
    subweights |-> None],
   [models |-> ListModel(<<[name |-> NameA, w |-> None],
                           [name |-> NameB, w |-> None]>>),
    ref |-> ArrayRef(Full(<<1>>, 0)), subweights |-> None],
   [models |-> StrModel(NameA),
    ref |-> ArrayRef(Full(<<MaxLen, MaxLen>>, 0)), subweights |-> None],
   [models |-> StrModel(NameA),
    ref |-> DictRef(<<[key |-> <<"x">>, val |-> 1]>>),
    subweights |-> Some(KVDict(<<[key |-> DfltKey, val |-> 1]>>))]}

RawSpec(type, models, ref, options) ==
  [label |-> <<"q">>, type |-> type, query |-> None, models |-> models,
   ref |-> ref, options |-> options]

\* what the query collaborator may answer to one get() of objective o
ModelArrays == SomeArrays

QueryOutcomes(o) ==
  IF o.cls = "ObjKeyValuePairs"
    THEN {[ok |-> b, err |-> IF b THEN "" ELSE "QueryError",
           val |-> Arr(o.ref_data.shape, d)] :
            b \in BOOLEAN, d \in [1..Len(o.queries) -> RefValues]}
  ELSE {Err("QueryError")} \cup {Ok(a) : a \in ModelArrays}

NoCall == [fn |-> "none"]

Init ==
  /\ pc = "start"
  /\ call = NoCall
  /\ ret = Err("pending")
  /\ obj = NoObj

Construct(raw) ==
  \E r \in {get_objective(raw)} :
     /\ call' = [fn |-> "get_objective", raw |-> raw]
     /\ ret' = [ok |-> r.ok, err |-> r.err, val |-> NoFitness]
     /\ obj' = IF r.ok THEN r.val ELSE NoObj
     /\ pc' = IF r.ok THEN "constructed" ELSE "failed"

GetObjective ==
  /\ pc = "start"
  /\ \/ \E t \in {None, Some("values")},
           m \in ModelSpecs, r \in ArrayRefs, o \in ValuesOptions :
          Construct(RawSpec(t, m, r, o))
     \/ \E t \in {None, Some("bands")},
           m \in {StrModel(NameA), ListModel(<<[name |-> NameA, w |-> None]>>),
                  ListModel(<<[name |-> NameA, w |-> None],
                              [name |-> NameB, w |-> None]>>)},
           r \in BandRefs, o \in BandsOptions \cup {None} :
          Construct(RawSpec(t, m, r, o))
     \/ \E tm \in {<<None, StrModel(NameA)>>,
                    <<Some("keyval_pairs"),
                      ListModel(<<[name |-> NameA, w |-> None],
                                  [name |-> NameB, w |-> None]>>)>>},
           r \in DictRefs, o \in KeyvalOptions :
          Construct(RawSpec(tm[1], tm[2], r, o))
     \/ \E e \in NamedEntries, cf \in CostNames, ef \in ErrNames :
          Construct(RawSpec(None, e.models, e.ref,
                            Some([NoOptions EXCEPT
                                    !.costf = cf, !.errf = ef,
                                    !.subweights = e.subweights])))

Evaluate ==
  /\ pc = "constructed"
  /\ \E q \in QueryOutcomes(obj) :
       LET e == evaluate(obj, q)
       IN /\ call' = [fn |-> "evaluate", q |-> q]
          /\ ret' = [ok |-> e.ok, err |-> e.err, val |-> e.val]
          /\ obj' = e.obj
  /\ UNCHANGED pc

Get ==
  /\ pc = "constructed"
  /\ \E q \in QueryOutcomes(obj) :
       LET g == get(obj, q)
       IN /\ call' = [fn |-> "get", q |-> q]
          /\ ret' = [ok |-> g.ok, err |-> g.err, val |-> g.val]
          /\ obj' = g.obj
  /\ UNCHANGED pc

Next == GetObjective \/ Evaluate \/ Get

Spec == Init /\ [][Next]_vars

(***************************************************************************)
(* Properties of parse_weights                                             *)
(***************************************************************************)
RECURSIVE Reverse(_)
Reverse(s) == IF s = <<>> THEN <<>> ELSE Reverse(Tail(s)) \o <<Head(s)>>

\* the entries of all groups named by keys
EntriesOf(spec, keys) == UNION {Range0(spec.groups[k]) : k \in Range0(keys)}

\* a 1-based inclusive range locator covers the 0-based first-axis index r
RangeCovers(loc, r) ==
  IF Len(loc) = 1 THEN loc[1] = r + 1 ELSE loc[1] <= r + 1 /\ r + 1 <= loc[2]

ValueCovers(loc, v) == loc[1] <= v /\ v <= loc[2]

StructuredDone ==
  /\ pc = "done"
  /\ call.fn = "parse_weights"
  /\ call.spec.kind = "dict"
  /\ ~call.normalised
  /\ ret.ok

PWBase ==
  AfterIndexes(call.spec, call.refdata, call.nn, call.shape, call.i0,
               call.ikeys).val

RangeWeights(p) ==
  {e.w : e \in {x \in EntriesOf(call.spec, call.rikeys) :
                  RangeCovers(x.loc, Row0(PWBase.shape, p))}}

ValueWeights(p) ==
  IF call.rfkeys = <<>> THEN {}
  ELSE {e.w : e \in {x \in EntriesOf(call.spec, call.rfkeys) :
                       ValueCovers(x.loc, call.refdata[1].data[p])}}

\* the call with every range and value group listed in reverse order
ReversedCall ==
  [call EXCEPT !.spec.groups =
     [k \in GroupKeys |->
        IF k \in Range0(call.rikeys) \cup Range0(call.rfkeys)
          THEN Reverse(call.spec.groups[k])
        ELSE call.spec.groups[k]]]

\* C1: after a structured parse without normalisation, the weight of every
\* position is the largest of its weight after the default and
\* explicit-index steps, the weights of the integer ranges covering its
\* first-axis index and the weights of the value ranges holding its
\* reference value; listing the overrides in reverse order gives the same
\* array.
C1_MaxWins ==
  StructuredDone =>
    /\ ret.val.shape = PWBase.shape
    /\ \A p \in 1..Len(PWBase.data) :
         ret.val.data[p] =
           SetMax({PWBase.data[p]} \cup RangeWeights(p) \cup ValueWeights(p))
    /\ PWApply(ReversedCall) = ret

\* two overlapping ranges, the larger weight listed first, and the larger
\* weight is the result on the overlap
C1_Witness ==
  /\ StructuredDone
  /\ \E p \in 1..Len(PWBase.data) :
       LET es == call.spec.groups["ranges"]
       IN /\ Len(es) = 2
          /\ RangeCovers(es[1].loc, Row0(PWBase.shape, p))
          /\ RangeCovers(es[2].loc, Row0(PWBase.shape, p))
          /\ es[1].w > es[2].w
          /\ es[2].w > PWBase.data[p]
          /\ ret.val.data[p] = es[1].w

(***************************************************************************)
(* Properties of parse_weights_keyval                                      *)
(***************************************************************************)
MappingDone ==
  /\ pc = "done"
  /\ call.fn = "parse_weights_keyval"
  /\ call.spec.kind = "dict"
  /\ call.data.dtype = "keyval"
  /\ ~call.normalised

\* the items of the mapping other than the default entry
Overrides == {it \in Range0(call.spec.items) : it.key # DfltKey}

DefaultValue ==
  IF \E it \in Range0(call.spec.items) : it.key = DfltKey
    THEN (CHOOSE it \in Range0(call.spec.items) : it.key = DfltKey).val
    ELSE 0

\* C2: with a mapping spec and normalisation off, the call succeeds with one
\* weight per data item: the value the mapping gives to the item's key when
\* a non-default item of the mapping has that key, the default otherwise.
C2_KeyvalWeights ==
  MappingDone =>
    /\ ret.ok
    /\ ret.val.shape = call.data.shape
    /\ Len(ret.val.data) = Len(call.data.keys)
    /\ \A i \in 1..Len(call.data.keys) :
         ret.val.data[i] =
           IF \E it \in Overrides : encode(it.key) = call.data.keys[i]
             THEN (CHOOSE it \in Overrides :
                     encode(it.key) = call.data.keys[i]).val
           ELSE DefaultValue

\* a mapping without default, with one key that matches an item and one
\* that matches none, over a table with an item the mapping does not name
C2_Witness ==
  /\ MappingDone
  /\ ret.ok
  /\ Len(call.spec.items) = 2
  /\ \A it \in Range0(call.spec.items) : it.key # DfltKey /\ it.val # 0
  /\ \E it \in Overrides : encode(it.key) \in Range0(call.data.keys)
  /\ \E it \in Overrides : encode(it.key) \notin Range0(call.data.keys)
  /\ \E i \in 1..Len(call.data.keys) :
       /\ \A it \in Overrides : encode(it.key) # call.data.keys[i]
       /\ ret.val.data[i] = 0

(***************************************************************************)
(* Properties of get_type                                                  *)
(***************************************************************************)
IsSum == call.n_models > 1 /\ call.ref.shape = <<1>>
IsKeyval ==
  call.n_models = 1 /\ Len(call.ref.shape) = 1 /\ call.ref.dtype = "keyval"
IsBands ==
  call.n_models = 1 /\ Len(call.ref.shape) = 2 /\ call.ref.dtype = "float"

\* C10: get_type answers 'weighted_sum', 'keyval_pairs' and 'bands' exactly
\* under their conditions and 'values' otherwise, and no two of the three
\* conditions hold together.
C10_GetType ==
  (pc = "done" /\ call.fn = "get_type") =>
    /\ (ret.val = "weighted_sum") <=> IsSum
    /\ (ret.val = "keyval_pairs") <=> IsKeyval
    /\ (ret.val = "bands") <=> IsBands
    /\ (ret.val = "values") <=> ~(IsSum \/ IsKeyval \/ IsBands)
    /\ ~(IsSum /\ IsKeyval) /\ ~(IsSum /\ IsBands) /\ ~(IsKeyval /\ IsBands)

\* one model and a 2-D float reference, classified as bands
C10_Witness ==
  /\ pc = "done"
  /\ call.fn = "get_type"
  /\ call.n_models = 1
  /\ call.ref.shape = <<MaxLen, MaxLen>>
  /\ call.ref.dtype = "float"
  /\ ret.val = "bands"

(***************************************************************************)
(* Properties of the objectives                                            *)
(***************************************************************************)
Built(cls) ==
  /\ call.fn = "get_objective"
  /\ objectives_mapper(PreparedSpec(call.raw).type) = cls

Called == call.fn \in {"get", "evaluate"}

\* number of identifiers of a models specification
Identifiers(models) == IF models.isstr THEN 1 ELSE Len(models.items)

\* the key-value table of the entry and its parsed subweights
KVRef == get_refdata(call.raw.ref)
KVParsed ==
  parse_weights_keyval(call.raw.options[1].subweights[1], KVRef,
                       NormaliseOpt(call.raw.options)).val
Retained == {i \in 1..Len(KVRef.data) : NonZero(KVParsed, i)}

\* the j-th retained position, in the order of the reference table
NthRetained(j) ==
  CHOOSE i \in Retained : Cardinality({k \in Retained : k <= i}) = j

\* C3: a constructed ObjKeyValuePairs holds exactly the reference entries
\* whose parsed subweight is non-zero, in the order of the reference:
\* query_key, ref_data, subweights and queries have one entry per retained
\* key, entry j of each belongs to the j-th retained key, and no retained
\* subweight is zero.
C3_ZeroWeightsDropped ==
  (Built("ObjKeyValuePairs") /\ ret.ok) =>
    LET n == Cardinality(Retained)
    IN /\ Len(obj.query_key) = n
       /\ obj.ref_data.shape = <<n>> /\ Len(obj.ref_data.data) = n
       /\ obj.subweights.shape = <<n>> /\ Len(obj.subweights.data) = n
       /\ Len(obj.queries) = n
       /\ \A j \in 1..n :
            /\ encode(obj.query_key[j]) = KVRef.keys[NthRetained(j)]
            /\ obj.ref_data.data[j] = KVRef.data[NthRetained(j)]
            /\ obj.subweights.data[j] = KVParsed.data[NthRetained(j)]
            /\ obj.queries[j].key = obj.query_key[j]
            /\ NonZero(obj.subweights, j)

\* an ObjKeyValuePairs built from two reference entries of which the first
\* has a zero subweight and is dropped
C3_Witness ==
  /\ Built("ObjKeyValuePairs")
  /\ ret.ok
  /\ Len(KVRef.data) = 2
  /\ Retained = {2}
  /\ Len(obj.query_key) = 1

\* C4: an ObjBands is built whether the options block is absent or lacks
\* keys; an absent key changes nothing (reference data as given, no row
\* mask, no model alignment, uniform subweights of the reference shape),
\* and get() on model data of the reference shape succeeds.
C4_MissingOptionsTolerated ==
  /\ (Built("ObjBands") /\ call.raw.models.isstr
      /\ Len(KVRef.shape) = 2) =>
       LET opt == call.raw.options
           o == IF opt = None THEN NoOptions ELSE opt[1]
       IN /\ (o.use_ref = None /\ o.align_ref = None /\ o.use_model = None
               /\ o.align_model = None /\ o.subweights = None) => ret.ok
          /\ ret.ok =>
               /\ (o.use_ref = None /\ o.align_ref = None) =>
                    obj.ref_data = KVRef
               /\ o.use_model = None => obj.subset_ind = None
               /\ o.align_model = None => obj.align_model = None
               /\ o.subweights = None =>
                    obj.subweights = Ones(obj.ref_data.shape)
  /\ (Called /\ obj.cls = "ObjBands" /\ call.q.ok
      /\ obj.subset_ind = None /\ obj.align_model = None
      /\ call.q.val.shape = obj.ref_data.shape) => ret.ok

\* C5: an ObjValues built without options.subweights has subweights of 1
\* of the shape of its final reference data.
C5_UniformSubweights ==
  (Built("ObjValues") /\ ret.ok
   /\ (call.raw.options = None \/ call.raw.options[1].subweights = None)) =>
    obj.subweights = Ones(obj.ref_data.shape)

\* C6: without reference data, a structured spec whose value-range groups
\* are empty parses to the weights its default, index and range groups
\* give, whatever value-range keys the caller names.
C6_RefdataOnlyForValues ==
  (pc = "done" /\ call.fn = "parse_weights" /\ call.spec.kind = "dict"
   /\ call.refdata = None /\ EntriesOf(call.spec, call.rfkeys) = {}) =>
    ret = PWApply([call EXCEPT !.rfkeys = <<>>])

\* C7: an ObjBands passes the model-count check with one identifier (a
\* string or a list of one) and is not built with two or more.
C7_ExactlyOneModel ==
  Built("ObjBands") =>
    /\ Identifiers(call.raw.models) = 1 => ret.err # OnlyOneModel
    /\ Identifiers(call.raw.models) >= 2 => ~ret.ok

\* C8 as stated: an evaluate() of a constructed ObjWeightedSum fails only
\* when the query collaborator fails.
C8_FailsOnlyOnQuery ==
  (call.fn = "evaluate" /\ obj.cls = "ObjWeightedSum" /\ ~ret.ok) =>
    ~call.q.ok

\* C8, amended: the construction of an ObjWeightedSum checks no shape and
\* succeeds; get() and evaluate() fail on the assertion, and return no
\* fitness, when the query yields a number of summands other than the
\* number of model weights.
C8_SummandsCheckedInGet ==
  /\ Built("ObjWeightedSum") => ret.ok
  /\ (Called /\ obj.cls = "ObjWeightedSum" /\ call.q.ok
      /\ call.q.val.shape[1] # Len(obj.model_weights.data)) =>
       /\ ~ret.ok
       /\ ret.err = "AssertionError"
       /\ call.fn = "evaluate" => ret.val = NoFitness

\* two model weights, a query answering one summand, and evaluate() fails
\* on the assertion
C8_Witness ==
  /\ call.fn = "evaluate"
  /\ obj.cls = "ObjWeightedSum"
  /\ Len(obj.model_weights.data) = 2
  /\ call.q.ok
  /\ call.q.val.shape = <<1>>
  /\ ret.err = "AssertionError"
  /\ ret.val = NoFitness

SameShapes(m, r, w) == m.shape = r.shape /\ r.shape = w.shape

\* C9: the cost function is applied to the objective's model data,
\* reference data and subweights only when the three have one shape; when
\* they have not, get() and evaluate() fail and no fitness is returned.
C9_ShapesBeforeCost ==
  /\ (call.fn = "evaluate" /\ ret.ok) =>
       /\ ret.val.model = obj.model_data[1]
       /\ ret.val.ref = obj.ref_data
       /\ ret.val.weights = obj.subweights
       /\ SameShapes(ret.val.model, ret.val.ref, ret.val.weights)
  /\ (Called /\ obj.model_data # None
      /\ ~SameShapes(obj.model_data[1], obj.ref_data, obj.subweights)) =>
       /\ ~ret.ok
       /\ call.fn = "evaluate" => ret.val = NoFitness

\* model data of the shape of the reference data, subweights of another
\* shape, and evaluate() fails
C9_Witness ==
  /\ call.fn = "evaluate"
  /\ call.q.ok
  /\ obj.model_data = Some(call.q.val)
  /\ obj.model_data[1].shape = obj.ref_data.shape
  /\ obj.subweights.shape # obj.ref_data.shape
  /\ ret.err = "AssertionError"
  /\ ret.val = NoFitness

(***************************************************************************)
(* get_ranges as a call of its own                                         *)
(***************************************************************************)
IndexValues == -1..MaxIndex

\* an item of a list: a bare index or a pair
RangeItems == {<<s>> : s \in IndexValues} \cup (IndexValues \X IndexValues)

InitGR ==
  /\ pc = "start"
  /\ \E c \in [fn : {"get_ranges"},
                data : {None} \cup {ScalarRange(s) : s \in IndexValues}
                         \cup {RangeSpec(items) :
                                 items \in UNION {[1..n -> RangeItems] :
                                                    n \in 0..MaxLen}}] :
       call = c
  /\ ret = Err("pending")
  /\ obj = NoObj

GetRanges ==
  /\ pc = "start"
  /\ call.fn = "get_ranges"
  /\ pc' = "done"
  /\ ret' = get_ranges(call.data)
  /\ UNCHANGED <<call, obj>>

NextGR == GetRanges

SpecGR == InitGR /\ [][NextGR]_vars

RangesDone == pc = "done" /\ call.fn = "get_ranges" /\ call.data # None

\* the 1-based inclusive pair an item of the input stands for
AsPair(item) == IF Len(item) = 1 THEN <<item[1], item[1]>> ELSE item

InvalidItem(item) == AsPair(item)[1] < 1 \/ AsPair(item)[2] < AsPair(item)[1]

\* C11: get_ranges returns one range per index or pair of its input, in
\* order: (s-1, s) for a bare index s (a scalar input gives a single range)
\* and (lo-1, hi) for a pair (lo, hi), so that (a, b) -> (a+1, b) gives the
\* input back; when some lo < 1 or hi < lo it fails and returns no range.
C11_GetRanges ==
  RangesDone =>
    LET items == call.data[1].items
    IN IF \E i \in 1..Len(items) : InvalidItem(items[i])
         THEN ~ret.ok /\ ret.err = "AssertionError" /\ ret.rngs = <<>>
       ELSE /\ ret.ok
            /\ Len(ret.rngs) = Len(items)
            /\ call.data[1].scalar => Len(ret.rngs) = 1
            /\ \A i \in 1..Len(items) :
                 /\ ret.rngs[i] = <<AsPair(items[i])[1] - 1, AsPair(items[i])[2]>>
                 /\ <<ret.rngs[i][1] + 1, ret.rngs[i][2]>> = AsPair(items[i])

\* a list of a bare index and a pair, converted
C11_Witness ==
  /\ RangesDone
  /\ call.data = RangeSpec(<<<<1>>, <<2, 3>>>>)
  /\ ret.ok
  /\ ret.rngs = <<<<0, 1>>, <<1, 3>>>>

\* an ObjBands was built from options that hold an align_ref locator
\* (band, k-point) or (band, 'min' | 'max')
BandsAligned ==
  /\ Built("ObjBands")
  /\ ret.ok
  /\ call.raw.options[1].align_ref # None
  /\ \/ call.raw.options[1].align_ref[1].kind = "k"
     \/ call.raw.options[1].align_ref[1].f \in {"min", "max"}

\* the reference rows that use_ref leaves
TrimmedRef ==
  IF call.raw.options[1].use_ref = None THEN KVRef
  ELSE TakeRows(KVRef, get_subset_ind(call.raw.options[1].use_ref).ind).val

\* the value of a 2-D array a that the locator pt names
Located(a, pt) ==
  LET cols == a.shape[2]
      row == Wrap(pt.band - 1, a.shape[1])
      band == [c \in 1..cols |-> a.data[row * cols + c]]
  IN IF pt.kind = "k" THEN band[Wrap(pt.k - 1, cols) + 1]
     ELSE IF pt.f = "min" THEN SeqMin(band)
     ELSE SeqMax(band)

\* C12: in a constructed ObjBands with an align_ref locator, the reference
\* data are the rows use_ref leaves, each entry less the one value the
\* locator names in those rows; the located value of the result is 0 and
\* the differences between entries are those of the trimmed rows.
C12_TrimThenAlign ==
  BandsAligned =>
    LET pt == call.raw.options[1].align_ref[1]
        shift == Located(TrimmedRef, pt)
        n == Len(TrimmedRef.data)
    IN /\ obj.ref_data.shape = TrimmedRef.shape
       /\ Len(obj.ref_data.data) = n
       /\ \A p \in 1..n : obj.ref_data.data[p] = TrimmedRef.data[p] - shift
       /\ Located(obj.ref_data, pt) = 0
       /\ \A p, q \in 1..n :
            obj.ref_data.data[p] - obj.ref_data.data[q]
              = TrimmedRef.data[p] - TrimmedRef.data[q]

\* use_ref keeps the second band only, whose entries differ from those of
\* the first, and (1, 'min') aligns on the minimum of that band
C12_Witness ==
  /\ BandsAligned
  /\ call.raw.options[1].use_ref = RangeSpec(<<<<2, 2>>>>)
  /\ call.raw.options[1].align_ref = BandFunc(1, "min")
  /\ KVRef.data = [p \in 1..(MaxLen * MaxLen) |-> p]
  /\ obj.ref_data.shape = <<1, MaxLen>>
  /\ obj.ref_data.data = [p \in 1..MaxLen |-> p - 1]

\* the function a name of the options resolves to
Registered(name, registry, default) ==
  IF name # None /\ lower(name[1]) \in registry THEN lower(name[1])
  ELSE default

\* the entry without the names of cost and error function
WithoutNames(raw) ==
  [raw EXCEPT !.options =
     IF raw.options = None THEN None
     ELSE Some([raw.options[1] EXCEPT !.costf = None, !.errf = None])]

\* C13: the names of cost and error function in the options never make a
\* construction fail: an entry is built or not as it is without the two
\* names, the entries that hold a name are all built, and a
\* built objective has for costf the registered function of the lower-cased
\* name, 'rms' when the name is absent or not registered, and likewise for
\* errf with default 'abs', each independently of the other name.
C13_NamesNeverFail ==
  call.fn = "get_objective" =>
    LET opt == call.raw.options
        cf == IF opt = None THEN None ELSE opt[1].costf
        ef == IF opt = None THEN None ELSE opt[1].errf
        plain == get_objective(WithoutNames(call.raw))
    IN /\ ret.ok = plain.ok
       /\ ret.err = plain.err
       /\ (cf # None \/ ef # None) => ret.ok
       /\ ret.ok =>
            /\ obj.costf = Registered(cf, costf_registry, DEFAULT_COST_FUNC)
            /\ obj.errf = Registered(ef, errf_registry, DEFAULT_ERROR_FUNC)
            /\ [obj EXCEPT !.costf = DEFAULT_COST_FUNC,
                           !.errf = DEFAULT_ERROR_FUNC,
                           !.options = WithoutNames(call.raw).options]
                 = plain.val

\* an upper-case registered cost name and an unregistered error name: the
\* objective is built with the registered cost and the default error
C13_Witness ==
  /\ call.fn = "get_objective"
  /\ ret.ok
  /\ call.raw.options # None
  /\ call.raw.options[1].costf = Some("MAE")
  /\ call.raw.options[1].errf = Some("Rel.")
  /\ obj.costf = "mae"
  /\ obj.errf = DEFAULT_ERROR_FUNC

\* the attributes a constructed objective keeps for its lifetime
Resolved(o) ==
  [ref_data |-> o.ref_data, subweights |-> o.subweights,
   query_key |-> o.query_key, model_names |-> o.model_names,
   model_weights |-> o.model_weights]

\* the objective as it was constructed: no model data yet
AsConstructed(o) == [o EXCEPT !.model_data = None]

\* a step that is a get() or an evaluate() of the constructed objective
CallStep == pc = "constructed" /\ call'.fn \in {"get", "evaluate"}

\* C14: a get() or evaluate() of a constructed objective, whether it
\* succeeds or fails, leaves ref_data, subweights, query_key, model_names
\* and model_weights as they were; its result is that of the same call on
\* the objective as constructed, given what the queries of this call return
\* (the model data of earlier calls play no part); and an evaluate() that
\* follows with the same query data returns the same fitness.
C14_EvaluationFrame ==
  [][CallStep =>
       /\ Resolved(obj') = Resolved(obj)
       /\ call'.fn = "get" =>
            /\ ret'.ok = get(AsConstructed(obj), call'.q).ok
            /\ ret'.val = get(AsConstructed(obj), call'.q).val
            /\ ret'.ok => obj'.model_data = Some(ret'.val.model)
       /\ call'.fn = "evaluate" =>
            /\ ret'.ok = evaluate(AsConstructed(obj), call'.q).ok
            /\ ret'.val = evaluate(AsConstructed(obj), call'.q).val
            /\ ret'.ok => obj'.model_data = Some(ret'.val.model)
            /\ ret'.val = evaluate(obj', call'.q).val]_vars

\* an evaluate() of an ObjKeyValuePairs with two retained keys: the model
\* data are the two values the queries of this call returned
C14_Witness ==
  /\ call.fn = "evaluate"
  /\ ret.ok
  /\ obj.cls = "ObjKeyValuePairs"
  /\ Len(obj.queries) = 2
  /\ call.q.val.data = <<0, 1>>
  /\ obj.model_data = Some(Arr(<<2>>, <<0, 1>>))
  /\ ret.val.model = Arr(<<2>>, <<0, 1>>)

\* the one explicit-index entry of the spec of the call
IndexEntry == CHOOSE e \in EntriesOf(call.spec, call.ikeys) : TRUE

\* a structured parse without normalisation whose spec holds a default and
\* one override, an explicit index: an integer on a 1-D weight array or a
\* pair on a 2-D one; the value-range step has its reference data
IndexOnly ==
  /\ pc = "done"
  /\ call.fn = "parse_weights"
  /\ call.spec.kind = "dict"
  /\ ~call.normalised
  /\ call.refdata # None \/ call.rfkeys = <<>>
  /\ EntriesOf(call.spec, call.rikeys \o call.rfkeys) = {}
  /\ SeqSum([i \in 1..Len(call.ikeys) |->
               Len(call.spec.groups[call.ikeys[i]])]) = 1
  /\ Len(IndexEntry.loc) = Len(InitialWeights(call.spec, call.refdata,
                                               call.nn, call.shape).shape)

\* the 0-based position the locator of the entry computes
IndexPosition ==
  IF Len(IndexEntry.loc) = 1 THEN <<call.i0 + IndexEntry.loc[1] - 1>>
  ELSE <<call.i0 + IndexEntry.loc[1] - 1, IndexEntry.loc[2] - 1>>

\* the 0-based position of the flat position p of an array of a shape
PositionOf(shape, p) ==
  IF Len(shape) = 1 THEN <<p - 1>>
  ELSE <<(p - 1) \div shape[2], (p - 1) % shape[2]>>

\* C15: an explicit-index override sets the weight at the position its
\* locator computes, (index0+L-1) or (index0+b-1, k-1), and no other; when
\* that position is outside the array (below 0, or at or after the length
\* of an axis) every weight keeps the default.
C15_OnlyAddressedEntry ==
  IndexOnly =>
    LET base == InitialWeights(call.spec, call.refdata, call.nn, call.shape)
    IN /\ ret.ok
       /\ ret.val.shape = base.shape
       /\ \A p \in 1..Len(base.data) :
            ret.val.data[p] =
              IF PositionOf(base.shape, p) = IndexPosition THEN IndexEntry.w
              ELSE base.data[p]

====
